---- MODULE Spec2Model ----
(***************************************************************************)
(* AudioTranscriber of speech_recognition.py, in three specifications:     *)
(*   Spec      load_term_replacements (dictionary loader) and              *)
(*             postprocess_text (text post-processor)                      *)
(*   SpecProc  process_directory and process_file                          *)
(*   SpecLang  extract_language_from_model_path, validate_language_config  *)
(*                                                                         *)
(* A Python str is a sequence of one-character strings.  A dict is a       *)
(* sequence of <<key, value>> pairs with distinct keys, in insertion order *)
(* (the order dict.items() iterates in).                                   *)
(***************************************************************************)
EXTENDS Integers, Sequences, FiniteSets, TLC

(***************************************************************************)
(* Bounds of the model.                                                    *)
(***************************************************************************)
\* Largest number of *.json files the glob of the dicts directory returns.
MaxFiles == 2

\* Longest text handed to postprocess_text.
MaxTextLen == 3

(***************************************************************************)
(* Characters.                                                             *)
(***************************************************************************)
BSL == "\\"          \* the backslash character
BEL == "<07>"        \* chr(7), what the template escape \a stands for
BSP == "<08>"        \* chr(8), the backspace character '\b'

Letters == {"a", "A", "b", "c"}
Digits == {"1"}

\* \w of the re module, on the characters of the model.
IsWord(c) == c \in Letters \cup Digits

\* Case folding of re.IGNORECASE, on the characters of the model.
Lower(c) == IF c = "A" THEN "a" ELSE c

\* Outcome of a call: a returned string, or a raised exception.
Ok(t) == [raised |-> FALSE, text |-> t]
Raised == [raised |-> TRUE, text |-> <<>>]

(***************************************************************************)
(* The re module, on the patterns the model uses.  The characters of a     *)
(* pattern are Letters, Digits, " ", "(", "+", ".", the backslash and       *)
(* chr(8); ")" is not among them, so a bare "(" never finds its ")" and no *)
(* pattern compiles with a capture group.  "++" (possessive from Python    *)
(* 3.11 on) is in no dictionary of the model.                              *)
(***************************************************************************)
\* Characters re.escape puts a backslash before.
EscapedChars == {"(", "+", ".", " ", BSL}

RECURSIVE Escape(_)
Escape(p) ==
    IF p = <<>> THEN <<>>
    ELSE (IF Head(p) \in EscapedChars THEN <<BSL, Head(p)>> ELSE <<Head(p)>>)
         \o Escape(Tail(p))

Lit(c) == [t |-> "lit", c |-> c, plus |-> FALSE]
Bnd == [t |-> "bnd", c |-> "", plus |-> FALSE]
Bos == [t |-> "bos", c |-> "", plus |-> FALSE]
Dot == [t |-> "any", c |-> "", plus |-> FALSE]
NoRegex == [ok |-> FALSE, atoms |-> <<>>]

\* sre_parse on rx from index i, acc the items parsed so far.
RECURSIVE Parse(_, _, _)
Parse(rx, i, acc) ==
    IF i > Len(rx) THEN [ok |-> TRUE, atoms |-> acc]
    ELSE LET c == rx[i] IN
      CASE c = BSL ->
             IF i = Len(rx) THEN NoRegex                   \* bad escape (end of pattern)
             ELSE LET d == rx[i + 1] IN
               CASE d = "b" -> Parse(rx, i + 2, Append(acc, Bnd))
                 [] d = "A" -> Parse(rx, i + 2, Append(acc, Bos))
                 [] d = "a" -> Parse(rx, i + 2, Append(acc, Lit(BEL)))
                 [] d \in Digits -> NoRegex                \* invalid group reference
                 [] d = "c" -> NoRegex                     \* bad escape \c
                 [] OTHER -> Parse(rx, i + 2, Append(acc, Lit(d)))
        [] c = "(" -> NoRegex                              \* missing ), unterminated subpattern
        [] c = "." -> Parse(rx, i + 1, Append(acc, Dot))
        [] c = "+" ->
             IF acc = <<>> THEN NoRegex                    \* nothing to repeat
             ELSE LET last == acc[Len(acc)] IN
               IF last.t \notin {"lit", "any"} \/ last.plus
               THEN NoRegex                                \* nothing to repeat, multiple repeat
               ELSE Parse(rx, i + 1,
                          [acc EXCEPT ![Len(acc)] = [last EXCEPT !.plus = TRUE]])
        [] OTHER -> Parse(rx, i + 1, Append(acc, Lit(c)))

\* re.compile(rx, re.IGNORECASE)
Compile(rx) == Parse(rx, 1, <<>>)

\* \b at the gap before text[pos].
IsBoundary(text, pos) ==
    LET before == pos > 1 /\ IsWord(text[pos - 1])
        after == pos <= Len(text) /\ IsWord(text[pos])
    IN before # after

\* A literal matches its character whatever the case; "." matches any
\* character (no text of the model holds a newline).
CharMatches(text, pos, at) ==
    pos <= Len(text) /\ (at.t = "any" \/ Lower(text[pos]) = Lower(at.c))

\* Number of consecutive characters from pos on that match the item at.
RECURSIVE RunLen(_, _, _)
RunLen(text, pos, at) ==
    IF CharMatches(text, pos, at) THEN 1 + RunLen(text, pos + 1, at) ELSE 0

\* The end (index after the last matched character) of the match of
\* atoms[k..] at pos that the backtracking matcher finds first; 0 if none.
RECURSIVE MatchFrom(_, _, _, _)
RECURSIVE TryPlus(_, _, _, _, _)
MatchFrom(atoms, k, text, pos) ==
    IF k > Len(atoms) THEN pos
    ELSE LET at == atoms[k] IN
      CASE at.t = "bnd" -> IF IsBoundary(text, pos) THEN MatchFrom(atoms, k + 1, text, pos) ELSE 0
        [] at.t = "bos" -> IF pos = 1 THEN MatchFrom(atoms, k + 1, text, pos) ELSE 0
        [] at.plus -> TryPlus(atoms, k, text, pos, RunLen(text, pos, at))
        [] OTHER -> IF CharMatches(text, pos, at)
                    THEN MatchFrom(atoms, k + 1, text, pos + 1) ELSE 0
\* Greedy x+: n repetitions, then n - 1, ... down to one.
TryPlus(atoms, k, text, pos, n) ==
    IF n = 0 THEN 0
    ELSE LET e == MatchFrom(atoms, k + 1, text, pos + n) IN
         IF e # 0 THEN e ELSE TryPlus(atoms, k, text, pos, n - 1)

\* sre_search from pos: <<start, end>> of the leftmost match, <<0, 0>> if
\* none.  With mustAdvance an empty match at pos itself does not count.
RECURSIVE Search(_, _, _, _, _)
Search(atoms, text, pos, s, mustAdvance) ==
    IF s > Len(text) + 1 THEN <<0, 0>>
    ELSE LET e == MatchFrom(atoms, 1, text, s) IN
         IF e # 0 /\ ~(mustAdvance /\ s = pos /\ e = s) THEN <<s, e>>
         ELSE Search(atoms, text, pos, s + 1, mustAdvance)

\* The loop of pattern.sub: copy up to the match, put the replacement,
\* go on after the match.
RECURSIVE SubFrom(_, _, _, _, _)
SubFrom(atoms, repl, text, pos, mustAdvance) ==
    LET m == Search(atoms, text, pos, pos, mustAdvance) IN
    IF m[1] = 0 THEN SubSeq(text, pos, Len(text))
    ELSE SubSeq(text, pos, m[1] - 1) \o repl
         \o SubFrom(atoms, repl, text, m[2], m[2] = m[1])

\* The replacement template of re.sub (sre_parse.parse_template), for a
\* pattern without groups: the literal text it stands for, or an error.
RECURSIVE ExpandTemplate(_, _)
ExpandTemplate(repl, i) ==
    IF i > Len(repl) THEN Ok(<<>>)
    ELSE LET c == repl[i] IN
      IF c # BSL
      THEN LET rest == ExpandTemplate(repl, i + 1) IN
           IF rest.raised THEN Raised ELSE Ok(<<c>> \o rest.text)
      ELSE IF i = Len(repl) THEN Raised                    \* bad escape (end of pattern)
      ELSE LET d == repl[i + 1]
               rest == ExpandTemplate(repl, i + 2)
               put(t) == IF rest.raised THEN Raised ELSE Ok(t \o rest.text)
           IN CASE d \in Digits -> Raised                  \* invalid group reference
                [] d = "a" -> put(<<BEL>>)
                [] d = "b" -> put(<<BSP>>)
                [] d = BSL -> put(<<BSL>>)
                [] d \in Letters -> Raised                 \* bad escape
                [] OTHER -> put(<<BSL, d>>)

\* re.sub(rx, repl, text, flags=re.IGNORECASE)
ReSub(rx, repl, text) ==
    LET re == Compile(rx)
        tpl == ExpandTemplate(repl, 1)
    IN IF ~re.ok \/ tpl.raised THEN Raised
       ELSE Ok(SubFrom(re.atoms, tpl.text, text, 1, FALSE))

(***************************************************************************)
(* dict                                                                    *)
(***************************************************************************)
\* The elements of a sequence.
Range(q) == {q[i] : i \in 1..Len(q)}

Keys(d) == {d[i][1] : i \in 1..Len(d)}
DictHas(d, k) == k \in Keys(d)
DictGet(d, k) == d[CHOOSE i \in 1..Len(d) : d[i][1] = k][2]

\* (a wrong version of DictSet: a known key keeps its value)
DictSetKeepsFirst(d, k, v) ==
    IF DictHas(d, k) THEN d ELSE Append(d, <<k, v>>)

\* d[k] = v: a new key goes last, a known key keeps its place.
DictSet(d, k, v) ==
    IF DictHas(d, k)
    THEN [i \in 1..Len(d) |-> IF d[i][1] = k THEN <<k, v>> ELSE d[i]]
    ELSE Append(d, <<k, v>>)

\* d.update(other)
RECURSIVE DictUpdate(_, _)

\* (a wrong version of DictUpdate: the last item of other is left out)
DictUpdateDropsLast(d, other) ==
    IF other = <<>> THEN d ELSE DictUpdate(d, SubSeq(other, 1, Len(other) - 1))

DictUpdate(d, other) ==
    IF other = <<>> THEN d
    ELSE DictUpdate(DictSet(d, Head(other)[1], Head(other)[2]), Tail(other))

(***************************************************************************)
(* Dictionary files, as json.load returns them.                            *)
(*   file    : readable (open and json.load succeed), the top-level keys   *)
(*             "replacements" (a dict) and "contexts" (a list of contexts, *)
(*             in the order of the JSON object)                            *)
(*   context : the key "replacements" (a list of rule entries)             *)
(*   rule    : a JSON object with any of "patterns", "wrong", "correct",   *)
(*             or a JSON string                                            *)
(***************************************************************************)
RuleEntry(hp, ps, hw, w, hc, c) ==
    [type |-> "dict", hasPatterns |-> hp, patterns |-> ps,
     hasWrong |-> hw, wrong |-> w, hasCorrect |-> hc, correct |-> c]
StringEntry ==
    [type |-> "str", hasPatterns |-> FALSE, patterns |-> <<>>,
     hasWrong |-> FALSE, wrong |-> <<>>, hasCorrect |-> FALSE, correct |-> <<>>]

Context(rules) == [hasReplacements |-> TRUE, replacements |-> rules]
ContextWithoutRules == [hasReplacements |-> FALSE, replacements |-> <<>>]

JsonFile(name, hr, repl, hc, ctxs) ==
    [name |-> name, readable |-> TRUE, hasReplacements |-> hr, replacements |-> repl,
     hasContexts |-> hc, contexts |-> ctxs]
BrokenFile(name) ==
    [name |-> name, readable |-> FALSE, hasReplacements |-> FALSE, replacements |-> <<>>,
     hasContexts |-> FALSE, contexts |-> <<>>]

\* Patterns and corrections of the dictionaries of the model.
pA == <<"a">>
pUpperA == <<"A">>
pB == <<"b">>
pC == <<"c">>
pParen == <<"(">>
pPlus == <<"a", "+">>
pDot == <<"a", ".">>
cGroupRef == <<BSL, "1">>

\* The dictionary files a dicts directory of the model is made of.
Catalogue ==
    { BrokenFile("broken.json"),
      JsonFile("flat1.json", TRUE, << <<pA, pB>>, <<pParen, pC>> >>, FALSE, <<>>),
      JsonFile("flat2.json", TRUE, << <<pB, pA>>, <<pDot, pC>> >>, FALSE, <<>>),
      JsonFile("flat3.json", TRUE, << <<pUpperA, pC>>, <<pPlus, pB>> >>, FALSE, <<>>),
      JsonFile("template.json", TRUE, << <<pB, cGroupRef>> >>, FALSE, <<>>),
      JsonFile("paren.json", TRUE, << <<pParen, cGroupRef>> >>, FALSE, <<>>),
      JsonFile("nested.json", FALSE, <<>>, TRUE,
               << Context(<< RuleEntry(TRUE, <<pA, pParen>>, FALSE, <<>>, TRUE, pC),
                             StringEntry >>),
                  ContextWithoutRules,
                  Context(<< RuleEntry(FALSE, <<>>, FALSE, <<>>, TRUE, pA),
                             RuleEntry(TRUE, <<>>, TRUE, pC, TRUE, pA),
                             RuleEntry(TRUE, <<>>, TRUE, pB, FALSE, <<>>),
                             RuleEntry(FALSE, <<>>, TRUE, pB, TRUE, pC) >>) >>),
      JsonFile("partial.json", FALSE, <<>>, TRUE,
               << Context(<< RuleEntry(FALSE, <<>>, TRUE, pB, TRUE, pC),
                             RuleEntry(TRUE, <<pA>>, FALSE, <<>>, FALSE, <<>>),
                             RuleEntry(FALSE, <<>>, TRUE, pC, TRUE, pA) >>) >>),
      JsonFile("both.json", TRUE, << <<pC, pB>> >>, TRUE,
               << Context(<< RuleEntry(FALSE, <<>>, TRUE, pA, TRUE, pA) >>) >>),
      JsonFile("neither.json", FALSE, <<>>, FALSE, <<>>) }

\* Sequences of at most n elements of S, no element twice.
RECURSIVE DistinctSeqs(_, _)
DistinctSeqs(S, n) ==
    IF n = 0 THEN {<<>>}
    ELSE LET shorter == DistinctSeqs(S, n - 1) IN
         shorter \cup {Append(q, x) : q \in shorter, x \in S}

NoRepeat(q) == \A i, j \in 1..Len(q) : i # j => q[i] # q[j]

\* What list(dicts_dir.glob("*.json")) can return: the files of the
\* directory, in any order.
Globs == {q \in DistinctSeqs(Catalogue, MaxFiles) : NoRepeat(q)}

\* The texts handed to postprocess_text: words of "a" and "b", separated by
\* " " or "(".  The upper case is in the dictionaries (the pattern "A").
TextChars == {"a", "b", " ", "("}
RECURSIVE SeqsUpTo(_, _)
SeqsUpTo(S, n) ==
    IF n = 0 THEN {<<>>}
    ELSE LET shorter == SeqsUpTo(S, n - 1) IN
         shorter \cup {Append(q, x) : q \in shorter, x \in S}
Texts == SeqsUpTo(TextChars, MaxTextLen)

(***************************************************************************)
(* State.                                                                  *)
(***************************************************************************)
VARIABLES
    pc,                 \* where the program is
    dictsExists,        \* dicts_dir.exists()
    json_files,         \* load_term_replacements: the list the glob returned
    replacements,       \* load_term_replacements: the table being built
    fi, ci, ri,         \* indexes of the file, context and rule entry at hand
    term_replacements,  \* self.term_replacements
    arg,                \* postprocess_text: the text it was called with
    text,               \* postprocess_text: the text so far
    pi,                 \* postprocess_text: index of the item of the loop
    result,             \* outcome of the last postprocess_text call
    engine,             \* self.engine
    caseSensitive,      \* the file system tells "a.m" from "A.M"
    inputDir,           \* names of the files of config['input_dir']
    transcripts,        \* the .md files of config['output_dir']
    processed,          \* names of the files of config['processed_dir']
    tempFiles,          \* names of the files of the temp directory
    audio_files,        \* process_directory: the sorted list
    idx,                \* process_directory: place of the loop in audio_files
    success_count,      \* process_directory: the counter
    reported,           \* process_directory: the count its summary printed
    calls,              \* the process_file calls made so far, with what each returned
    temp_wav,           \* process_file: the temp WAV path, or None
    results,            \* process_file: what transcribe_audio returned
    markdown,           \* process_file: the text of the transcript
    ret,                \* process_file: the return under way
    model_name,         \* Path(config['vosk_model_path']).name
    language,           \* config['language'] (Missing: no such key)
    detected_lang,      \* validate_language_config: the language of the model name
    config_lang         \* validate_language_config: the configured one, normalised

fileVars == <<inputDir, transcripts, processed, tempFiles>>
dirVars == <<audio_files, idx, success_count, reported, calls>>
callVars == <<temp_wav, results, markdown, ret>>
procVars == <<engine, caseSensitive, fileVars, dirVars, callVars>>
langVars == <<model_name, language, detected_lang, config_lang>>

vars == <<pc, dictsExists, json_files, replacements, fi, ci, ri,
          term_replacements, arg, text, pi, result, procVars, langVars>>

loaderVars == <<dictsExists, json_files, replacements, fi, ci, ri>>
postVars == <<arg, text, pi, result>>

NoResult == [status |-> "none", text |-> <<>>]
Returned(t) == [status |-> "returned", text |-> t]
RaisedResult == [status |-> "raised", text |-> <<>>]

None == <<"None">>
Missing == <<"Missing">>
NoReturn == [done |-> FALSE, value |-> FALSE, at |-> "none"]
Return(v, at) == [done |-> TRUE, value |-> v, at |-> at]

\* No directory has been processed and no process_file call is under way.
DirIdle ==
    /\ audio_files = <<>> /\ idx = 0 /\ success_count = 0
    /\ reported = None /\ calls = <<>>
CallIdle ==
    /\ temp_wav = None /\ results = <<>> /\ markdown = <<>> /\ ret = NoReturn

Init ==
    /\ pc = "start"
    /\ dictsExists \in BOOLEAN
    /\ json_files \in Globs
    /\ dictsExists = FALSE => json_files = <<>>
    /\ replacements = <<>>
    /\ fi = 0 /\ ci = 0 /\ ri = 0
    /\ term_replacements = <<>>
    /\ arg = <<>> /\ text = <<>> /\ pi = 0
    /\ result = NoResult
    /\ engine = "vosk" /\ caseSensitive = TRUE
    /\ inputDir = {} /\ transcripts = {} /\ processed = {} /\ tempFiles = {}
    /\ DirIdle /\ CallIdle
    /\ model_name = <<>> /\ language = Missing
    /\ detected_lang = None /\ config_lang = <<>>

(***************************************************************************)
(* load_term_replacements                                                  *)
(***************************************************************************)
\* (a wrong version of LoadNothing: a missing dicts directory is an error
\* that ends the construction)
LoadNothingRaises ==
    /\ pc = "start"
    /\ ~dictsExists \/ json_files = <<>>
    /\ IF dictsExists
       THEN pc' = "model" /\ term_replacements' = replacements
       ELSE pc' = "failed" /\ UNCHANGED term_replacements
    /\ UNCHANGED <<loaderVars, postVars>>
    /\ UNCHANGED <<procVars, langVars>>

\* The early returns: no dicts directory, or no .json file in it.  The
\* empty table is returned and __init__ goes on with load_model.
LoadNothing ==
    /\ pc = "start"
    /\ ~dictsExists \/ json_files = <<>>
    /\ pc' = "model"
    /\ term_replacements' = replacements
    /\ UNCHANGED <<loaderVars, postVars>>
    /\ UNCHANGED <<procVars, langVars>>

LoadBegin ==
    /\ pc = "start"
    /\ dictsExists /\ json_files # <<>>
    /\ pc' = "file"
    /\ fi' = 1
    /\ UNCHANGED <<dictsExists, json_files, replacements, ci, ri, term_replacements, postVars>>
    /\ UNCHANGED <<procVars, langVars>>

\* The end of the loop body: the loop takes the next file.
NextFile ==
    /\ pc' = "file"
    /\ fi' = fi + 1
    /\ ci' = 0 /\ ri' = 0

\* (a wrong version of FileFailed: the exception ends the scan)
FileFailedEndsScan ==
    /\ pc' = "file"
    /\ fi' = Len(json_files) + 1
    /\ ci' = 0 /\ ri' = 0
    /\ UNCHANGED replacements

\* The except clause: the warning is printed and the loop takes the next
\* file; what the file put in the table before it failed stays.
FileFailed ==
    /\ NextFile
    /\ UNCHANGED replacements

\* (a wrong version of OpenFile: the key "contexts" is looked for first)
OpenFileContextsFirst ==
    /\ pc = "file"
    /\ fi <= Len(json_files)
    /\ LET data == json_files[fi] IN
       IF ~data.readable
       THEN FileFailed
       ELSE IF data.hasContexts
       THEN pc' = "context" /\ ci' = 1 /\ ri' = 0 /\ UNCHANGED <<fi, replacements>>
       ELSE IF data.hasReplacements
       THEN NextFile /\ replacements' = DictUpdate(replacements, data.replacements)
       ELSE NextFile /\ UNCHANGED replacements
    /\ UNCHANGED <<dictsExists, json_files, term_replacements, postVars>>
    /\ UNCHANGED <<procVars, langVars>>

\* Top of the loop body: open, json.load and the choice of the format.
OpenFile ==
    /\ pc = "file"
    /\ fi <= Len(json_files)
    /\ LET data == json_files[fi] IN
       IF ~data.readable
       THEN FileFailed
       ELSE IF data.hasReplacements
       THEN NextFile /\ replacements' = DictUpdate(replacements, data.replacements)
       ELSE IF data.hasContexts
       THEN pc' = "context" /\ ci' = 1 /\ ri' = 0 /\ UNCHANGED <<fi, replacements>>
       ELSE NextFile /\ UNCHANGED replacements
    /\ UNCHANGED <<dictsExists, json_files, term_replacements, postVars>>
    /\ UNCHANGED <<procVars, langVars>>

\* for context_name, context_data in data["contexts"].items()
EnterContext ==
    /\ pc = "context"
    /\ LET contexts == json_files[fi].contexts IN
       IF ci > Len(contexts)
       THEN NextFile
       ELSE IF contexts[ci].hasReplacements
       THEN pc' = "rule" /\ ri' = 1 /\ UNCHANGED <<fi, ci>>
       ELSE pc' = "context" /\ ci' = ci + 1 /\ UNCHANGED <<fi, ri>>
    /\ UNCHANGED <<dictsExists, json_files, replacements, term_replacements, postVars>>
    /\ UNCHANGED <<procVars, langVars>>

\* (a wrong version of SetAll: only the first pattern of the list is set)
SetAllFirstOnly(d, patterns, correct) ==
    IF patterns = <<>> THEN d ELSE DictSet(d, Head(patterns), correct)

\* for pattern in replacement["patterns"]: replacements[pattern] = correct
RECURSIVE SetAll(_, _, _)
SetAll(d, patterns, correct) ==
    IF patterns = <<>> THEN d
    ELSE SetAll(DictSet(d, Head(patterns), correct), Tail(patterns), correct)

\* (a wrong version of LoadEntry: an entry that is no rule raises)
LoadEntryStrict(d, entry) ==
    IF entry.type = "dict" /\ entry.hasPatterns /\ entry.patterns # <<>> /\ entry.hasCorrect
    THEN [raised |-> FALSE, table |-> SetAll(d, entry.patterns, entry.correct)]
    ELSE IF entry.type = "dict" /\ ~entry.hasPatterns /\ entry.hasWrong /\ entry.hasCorrect
    THEN [raised |-> FALSE, table |-> DictSet(d, entry.wrong, entry.correct)]
    ELSE [raised |-> TRUE, table |-> d]

\* (a wrong version of LoadEntry: an empty "patterns" list falls through to
\* the "wrong" branch)
LoadEntryFallsThrough(d, entry) ==
    IF entry.type = "dict" /\ entry.hasPatterns /\ entry.patterns # <<>>
    THEN IF entry.hasCorrect
         THEN [raised |-> FALSE, table |-> SetAll(d, entry.patterns, entry.correct)]
         ELSE [raised |-> TRUE, table |-> d]
    ELSE IF entry.type = "dict" /\ entry.hasWrong
    THEN IF entry.hasCorrect
         THEN [raised |-> FALSE, table |-> DictSet(d, entry.wrong, entry.correct)]
         ELSE [raised |-> TRUE, table |-> d]
    ELSE [raised |-> FALSE, table |-> d]

\* What one rule entry does to the table: the new table, or the KeyError
\* of replacement["correct"].
LoadEntry(d, entry) ==
    IF entry.type = "dict" /\ entry.hasPatterns
    THEN IF entry.patterns # <<>>
         THEN IF entry.hasCorrect
              THEN [raised |-> FALSE, table |-> SetAll(d, entry.patterns, entry.correct)]
              ELSE [raised |-> TRUE, table |-> d]
         ELSE [raised |-> FALSE, table |-> d]
    ELSE IF entry.type = "dict" /\ entry.hasWrong
    THEN IF entry.hasCorrect
         THEN [raised |-> FALSE, table |-> DictSet(d, entry.wrong, entry.correct)]
         ELSE [raised |-> TRUE, table |-> d]
    ELSE [raised |-> FALSE, table |-> d]

\* (a wrong version of LoadRule: the KeyError of a rule is swallowed and the
\* loop takes the next rule of the file)
LoadRuleGoesOn ==
    /\ pc = "rule"
    /\ LET rules == json_files[fi].contexts[ci].replacements IN
       IF ri > Len(rules)
       THEN pc' = "context" /\ ci' = ci + 1 /\ ri' = 0 /\ UNCHANGED <<fi, replacements>>
       ELSE LET r == LoadEntry(replacements, rules[ri]) IN
            /\ replacements' = r.table
            /\ pc' = "rule" /\ ri' = ri + 1 /\ UNCHANGED <<fi, ci>>
    /\ UNCHANGED <<dictsExists, json_files, term_replacements, postVars>>
    /\ UNCHANGED <<procVars, langVars>>

\* for replacement in context_data["replacements"]
LoadRule ==
    /\ pc = "rule"
    /\ LET rules == json_files[fi].contexts[ci].replacements IN
       IF ri > Len(rules)
       THEN pc' = "context" /\ ci' = ci + 1 /\ ri' = 0 /\ UNCHANGED <<fi, replacements>>
       ELSE LET r == LoadEntry(replacements, rules[ri]) IN
            IF r.raised
            THEN FileFailed
            ELSE /\ replacements' = r.table
                 /\ pc' = "rule" /\ ri' = ri + 1 /\ UNCHANGED <<fi, ci>>
    /\ UNCHANGED <<dictsExists, json_files, term_replacements, postVars>>
    /\ UNCHANGED <<procVars, langVars>>

\* The loop is over: return replacements, which __init__ keeps; the locals
\* of the call are gone and __init__ goes on with load_model.
LoadReturn ==
    /\ pc = "file"
    /\ fi > Len(json_files)
    /\ pc' = "model"
    /\ term_replacements' = replacements
    /\ json_files' = <<>> /\ replacements' = <<>>
    /\ fi' = 0 /\ ci' = 0 /\ ri' = 0
    /\ UNCHANGED <<dictsExists, postVars>>
    /\ UNCHANGED <<procVars, langVars>>

(***************************************************************************)
(* The rest of __init__: load_model, which returns the model or raises     *)
(* (no model path, no model at the path, the engine's own error); the      *)
(* exception leaves __init__ and main returns 1.                           *)
(***************************************************************************)
LoadModel ==
    /\ pc = "model"
    /\ \E loaded \in BOOLEAN : pc' = IF loaded THEN "ready" ELSE "failed"
    /\ UNCHANGED <<loaderVars, term_replacements, postVars>>
    /\ UNCHANGED <<procVars, langVars>>

(***************************************************************************)
(* postprocess_text                                                        *)
(***************************************************************************)
RegexMeta == {"[", "]", "(", ")", "+", "?", "*", "^", "$"}

\* (a wrong version of HasRegexChars: "." counts as a regex character too)
HasRegexCharsWithDot(pattern) ==
    \/ \E i \in 1..Len(pattern) : pattern[i] = BSP
    \/ \E i \in 1..(Len(pattern) - 1) : pattern[i] = BSL /\ pattern[i + 1] = "b"
    \/ \E i \in 1..Len(pattern) : pattern[i] \in RegexMeta \cup {"."}

\* has_regex_chars: chr(8) in pattern, or backslash b in pattern, or
\* re.search(r'[\[\]()+?*^$]', pattern)
HasRegexChars(pattern) ==
    \/ \E i \in 1..Len(pattern) : pattern[i] = BSP
    \/ \E i \in 1..(Len(pattern) - 1) : pattern[i] = BSL /\ pattern[i + 1] = "b"
    \/ \E i \in 1..Len(pattern) : pattern[i] \in RegexMeta

\* r'\b' + re.escape(pattern) + r'\b'
WholeWord(pattern) == <<BSL, "b">> \o Escape(pattern) \o <<BSL, "b">>

\* One pass of the loop body: the new text, or the exception that leaves it.
ApplyRule(pattern, correct, t) ==
    IF HasRegexChars(pattern)
    THEN LET r == ReSub(pattern, correct, t) IN
         IF r.raised THEN ReSub(WholeWord(pattern), correct, t) ELSE r
    ELSE ReSub(WholeWord(pattern), correct, t)

\* The left fold of the single-rule substitutions over table[i..], from cur.
\* Each pass is evaluated once, to the value the loop assigns to text: r
\* ranges over the one outcome of the pass.
RECURSIVE FoldRules(_, _, _)
FoldRules(table, i, cur) ==
    IF i > Len(table) THEN Returned(cur)
    ELSE CHOOSE out \in
           {IF r.raised THEN RaisedResult ELSE FoldRules(table, i + 1, r.text) :
              r \in {ApplyRule(table[i][1], table[i][2], cur)}} : TRUE

\* (a wrong version of PostprocessCall: the fast path returns an empty
\* string)
PostprocessCallReturnsNothing ==
    /\ pc = "ready"
    /\ \E t \in Texts :
         /\ arg' = t
         /\ IF term_replacements = <<>>
            THEN /\ result' = Returned(<<>>)
                 /\ pc' = "returned"
                 /\ UNCHANGED <<text, pi>>
            ELSE /\ pc' = "post"
                 /\ text' = t
                 /\ pi' = 1
                 /\ result' = NoResult
    /\ UNCHANGED <<loaderVars, term_replacements>>
    /\ UNCHANGED <<procVars, langVars>>

\* The call and its fast path: if not self.term_replacements: return text
PostprocessCall ==
    /\ pc = "ready"
    /\ \E t \in Texts :
         /\ arg' = t
         /\ IF term_replacements = <<>>
            THEN /\ result' = Returned(t)
                 /\ pc' = "returned"
                 /\ UNCHANGED <<text, pi>>
            ELSE /\ pc' = "post"
                 /\ text' = t
                 /\ pi' = 1
                 /\ result' = NoResult
    /\ UNCHANGED <<loaderVars, term_replacements>>
    /\ UNCHANGED <<procVars, langVars>>

\* (a wrong version of PostprocessRule: each rule is applied to the text
\* the call was given, not to the text so far)
PostprocessRuleOnArg ==
    /\ pc = "post"
    /\ pi <= Len(term_replacements)
    /\ LET r == ApplyRule(term_replacements[pi][1], term_replacements[pi][2], arg) IN
       IF r.raised
       THEN /\ pc' = "returned"
            /\ result' = RaisedResult
            /\ UNCHANGED <<text, pi>>
       ELSE /\ text' = r.text
            /\ pi' = pi + 1
            /\ UNCHANGED <<pc, result>>
    /\ UNCHANGED <<loaderVars, term_replacements, arg>>
    /\ UNCHANGED <<procVars, langVars>>

\* (a wrong version of PostprocessRule: the return sits inside the loop)
PostprocessRuleReturnsEarly ==
    /\ pc = "post"
    /\ pi <= Len(term_replacements)
    /\ LET r == ApplyRule(term_replacements[pi][1], term_replacements[pi][2], text) IN
       IF r.raised
       THEN /\ pc' = "returned"
            /\ result' = RaisedResult
            /\ UNCHANGED <<text, pi>>
       ELSE /\ text' = r.text
            /\ pi' = pi + 1
            /\ pc' = "returned"
            /\ result' = Returned(r.text)
    /\ UNCHANGED <<loaderVars, term_replacements, arg>>
    /\ UNCHANGED <<procVars, langVars>>

\* One pass of the loop: for pattern, correct in replacements.items()
PostprocessRule ==
    /\ pc = "post"
    /\ pi <= Len(term_replacements)
    /\ LET r == ApplyRule(term_replacements[pi][1], term_replacements[pi][2], text) IN
       IF r.raised
       THEN /\ pc' = "returned"
            /\ result' = RaisedResult
            /\ UNCHANGED <<text, pi>>
       ELSE /\ text' = r.text
            /\ pi' = pi + 1
            /\ UNCHANGED <<pc, result>>
    /\ UNCHANGED <<loaderVars, term_replacements, arg>>
    /\ UNCHANGED <<procVars, langVars>>

PostprocessReturn ==
    /\ pc = "post"
    /\ pi > Len(term_replacements)
    /\ pc' = "returned"
    /\ result' = Returned(text)
    /\ UNCHANGED <<loaderVars, term_replacements, arg, text, pi>>
    /\ UNCHANGED <<procVars, langVars>>

\* format_results_to_markdown goes on with the value postprocess_text gave
\* it (or is left by its exception); the call's locals are gone.
CallerResumes ==
    /\ pc = "returned"
    /\ pc' = "ready"
    /\ arg' = <<>> /\ text' = <<>> /\ pi' = 0
    /\ result' = NoResult
    /\ UNCHANGED <<loaderVars, term_replacements>>
    /\ UNCHANGED <<procVars, langVars>>

Next ==
    \/ LoadNothing
    \/ LoadBegin
    \/ OpenFile
    \/ EnterContext
    \/ LoadRule
    \/ LoadReturn
    \/ LoadModel
    \/ PostprocessCall
    \/ PostprocessRule
    \/ PostprocessReturn
    \/ CallerResumes

Spec == Init /\ [][Next]_vars

(***************************************************************************)
(* File names.  A name is a str; Path(name).suffix and Path(name).stem cut *)
(* it at its last ".", unless that is its first or its last character.     *)
(***************************************************************************)
\* Largest number of files in the input directory.
MaxAudio == 2

\* str.lower and str.upper, on the characters of the file names, model
\* names and language codes of the model.
LowerChar(c) ==
    CASE c = "A" -> "a" [] c = "B" -> "b" [] c = "M" -> "m" [] c = "W" -> "w"
      [] c = "E" -> "e" [] c = "N" -> "n" [] c = "R" -> "r" [] c = "U" -> "u"
      [] OTHER -> c
UpperChar(c) ==
    CASE c = "a" -> "A" [] c = "b" -> "B" [] c = "m" -> "M" [] c = "w" -> "W"
      [] c = "e" -> "E" [] c = "n" -> "N" [] c = "r" -> "R" [] c = "u" -> "U"
      [] OTHER -> c
LowerStr(name) == [i \in 1..Len(name) |-> LowerChar(name[i])]
UpperStr(name) == [i \in 1..Len(name) |-> UpperChar(name[i])]

\* ord(c)
CodePoint(c) ==
    CASE c = "." -> 46 [] c = "A" -> 65 [] c = "B" -> 66 [] c = "M" -> 77
      [] c = "W" -> 87 [] c = "a" -> 97 [] c = "b" -> 98 [] c = "c" -> 99
      [] c = "m" -> 109 [] c = "t" -> 116 [] c = "w" -> 119

\* s < t, as Python compares two str.
RECURSIVE StrLess(_, _)
StrLess(s, t) ==
    IF t = <<>> THEN FALSE
    ELSE IF s = <<>> THEN TRUE
    ELSE IF Head(s) # Head(t) THEN CodePoint(Head(s)) < CodePoint(Head(t))
    ELSE StrLess(Tail(s), Tail(t))

\* name.rfind('.'), counting from 1; 0 if there is no "."
LastDot(name) ==
    LET dots == {i \in 1..Len(name) : name[i] = "."} IN
    IF dots = {} THEN 0 ELSE CHOOSE i \in dots : \A j \in dots : j <= i

Suffix(name) ==
    LET i == LastDot(name) IN
    IF 1 < i /\ i < Len(name) THEN SubSeq(name, i, Len(name)) ELSE <<>>

Stem(name) ==
    LET i == LastDot(name) IN
    IF 1 < i /\ i < Len(name) THEN SubSeq(name, 1, i - 1) ELSE name

\* temp_dir / f"temp_{input_path.stem}.wav"
TempName(name) == <<"temp_">> \o Stem(name) \o <<".wav">>

\* Two names are one path of the file system.
SamePath(s, t) == IF caseSensitive THEN s = t ELSE LowerStr(s) = LowerStr(t)

\* config['supported_formats']
SupportedFormats == << <<".", "m">>, <<".", "w">> >>

\* The files an input directory of the model is made of: two with one
\* stem, one in upper case, one whose whole name is an extension, and one
\* that is no audio file.
AudioNames ==
    { <<"a", ".", "m">>, <<"a", ".", "w">>, <<"B", ".", "M">>,
      <<".", "m">>, <<"c", ".", "t">> }

InputDirs == {d \in SUBSET AudioNames : Cardinality(d) <= MaxAudio}

\* input_dir.glob("*" + ext): the names that end with ext; a file system
\* that is not case-sensitive does not tell the cases apart.
Glob(dir, ext) ==
    {name \in dir :
        /\ Len(name) >= Len(ext)
        /\ LET tail == SubSeq(name, Len(name) - Len(ext) + 1, Len(name)) IN
           IF caseSensitive THEN tail = ext ELSE LowerStr(tail) = LowerStr(ext)}

\* Some list of the elements of a set.
RECURSIVE ListOf(_)
ListOf(S) ==
    IF S = {} THEN <<>>
    ELSE LET x == CHOOSE x \in S : TRUE IN <<x>> \o ListOf(S \ {x})

\* audio_files after the two extend calls of each format.
RECURSIVE Extended(_, _)
Extended(dir, formats) ==
    IF formats = <<>> THEN <<>>
    ELSE ListOf(Glob(dir, Head(formats)))
         \o ListOf(Glob(dir, UpperStr(Head(formats))))
         \o Extended(dir, Tail(formats))

\* (a wrong version of SortKey: the names are compared as they are)
SortKeyAsWritten(name) == name

\* key=lambda x: x.name.lower()
SortKey(name) == LowerStr(name)

\* sorted(list(set(found)), key=...): the elements of found, each once, keys
\* never falling; elements with one key in any order (the order of a set).
SortedLists(found) ==
    LET S == Range(found)
        n == Cardinality(S)
    IN {q \in [1..n -> S] :
          /\ Range(q) = S
          /\ \A i, j \in 1..n : i < j => ~StrLess(SortKey(q[j]), SortKey(q[i]))}

(***************************************************************************)
(* What the engine hears, and the transcript made of it.                   *)
(***************************************************************************)
\* r.get('text') of each result of transcribe_audio: Vosk returns the
\* results with a text, possibly none; Whisper returns one result, whose
\* text may be empty.
Recognised(eng) ==
    IF eng = "vosk"
    THEN { <<>>, << <<"a">> >>, << <<"a">>, <<"b">> >> }
    ELSE { << <<>> >>, << <<"a">> >>, << <<"a", " ", "b">> >> }

\* " ".join([r.get('text', '') for r in results if r.get('text')])
RECURSIVE JoinTexts(_)
JoinTexts(rs) ==
    IF rs = <<>> THEN <<>>
    ELSE IF Head(rs) = <<>> THEN JoinTexts(Tail(rs))
    ELSE LET rest == JoinTexts(Tail(rs)) IN
         IF rest = <<>> THEN Head(rs) ELSE Head(rs) \o <<" ">> \o rest

\* postprocess_text as a whole: the fast path, or the loop over the table.
PostprocessText(table, t) ==
    IF table = <<>> THEN Returned(t) ELSE FoldRules(table, 1, t)

\* The line of the transcript that says nothing was recognised.
NotRecognised == <<"*">>

\* The tables a transcriber of the model is constructed with: the empty one
\* and those load_term_replacements returns for the one file flat1.json or
\* template.json.
TablesBuilt ==
    {<<>>} \cup {DictUpdate(<<>>, f.replacements) :
                   f \in {g \in Catalogue : g.name \in {"flat1.json", "template.json"}}}

(***************************************************************************)
(* process_directory and process_file, from a constructed transcriber.     *)
(***************************************************************************)
InitProc ==
    /\ pc = "ready"
    /\ dictsExists \in BOOLEAN
    /\ json_files = <<>> /\ replacements = <<>>
    /\ fi = 0 /\ ci = 0 /\ ri = 0
    /\ term_replacements \in TablesBuilt
    /\ dictsExists = FALSE => term_replacements = <<>>
    /\ arg = <<>> /\ text = <<>> /\ pi = 0
    /\ result = NoResult
    /\ engine \in {"vosk", "whisper"}
    /\ caseSensitive \in BOOLEAN
    /\ inputDir \in InputDirs
    /\ transcripts = {} /\ processed = {} /\ tempFiles = {}
    /\ DirIdle /\ CallIdle
    /\ model_name = <<>> /\ language = Missing
    /\ detected_lang = None /\ config_lang = <<>>

constructed == <<dictsExists, json_files, replacements, fi, ci, ri,
                 term_replacements, postVars, engine, caseSensitive, langVars>>

\* The file the loop of process_directory is at.
AudioFile == audio_files[idx]

\* process_directory up to its loop: the globs, set, sorted, and the early
\* return when nothing was found.
FindAudioFiles ==
    /\ pc = "ready"
    /\ \E found \in {Extended(inputDir, SupportedFormats)} :
       \E q \in SortedLists(found) :
         /\ audio_files' = q
         /\ IF q = <<>>
            THEN pc' = "done" /\ UNCHANGED <<idx, success_count>>
            ELSE pc' = "loop" /\ idx' = 1 /\ success_count' = 0
    /\ UNCHANGED <<constructed, fileVars, reported, calls, callVars>>

\* process_file is called with the next file: the test of the extension,
\* which returns False before the try block is entered.
ProcessFileCall ==
    /\ pc = "loop"
    /\ idx <= Len(audio_files)
    /\ IF LowerStr(Suffix(AudioFile)) \notin Range(SupportedFormats)
       THEN pc' = "fileReturned" /\ ret' = Return(FALSE, "suffix")
       ELSE /\ pc' = IF engine = "vosk" THEN "convert" ELSE "transcribe"
            /\ UNCHANGED ret
    /\ UNCHANGED <<constructed, fileVars, dirVars, temp_wav, results, markdown>>

\* Vosk: temp_wav is set and ffmpeg runs; when ffmpeg fails it may or may
\* not have left its output file, and process_file returns False.
ConvertToWav ==
    /\ pc = "convert"
    /\ temp_wav' = TempName(AudioFile)
    /\ \E converted, written \in BOOLEAN :
         /\ converted => written
         /\ tempFiles' = IF written THEN tempFiles \cup {TempName(AudioFile)} ELSE tempFiles
         /\ IF converted
            THEN pc' = "transcribe" /\ UNCHANGED ret
            ELSE pc' = "finally" /\ ret' = Return(FALSE, "convert")
    /\ UNCHANGED <<constructed, inputDir, transcripts, processed, dirVars, results, markdown>>

\* transcribe_audio returns its results or raises.
TranscribeAudio ==
    /\ pc = "transcribe"
    /\ \/ /\ pc' = "finally" /\ ret' = Return(FALSE, "transcribe")
          /\ UNCHANGED results
       \/ /\ results' \in Recognised(engine)
          /\ pc' = "format"
          /\ UNCHANGED ret
    /\ UNCHANGED <<constructed, fileVars, dirVars, temp_wav, markdown>>

\* (a wrong version of FormatResults: the rules applied are taken out of
\* the table)
FormatResultsUsesUpTable ==
    /\ pc = "format"
    /\ IF results = <<>>
       THEN markdown' = NotRecognised /\ pc' = "write" /\ UNCHANGED ret
       ELSE LET r == PostprocessText(term_replacements, JoinTexts(results)) IN
            IF r.status = "raised"
            THEN pc' = "finally" /\ ret' = Return(FALSE, "format") /\ UNCHANGED markdown
            ELSE markdown' = r.text /\ pc' = "write" /\ UNCHANGED ret
    /\ term_replacements' = <<>>
    /\ UNCHANGED <<dictsExists, json_files, replacements, fi, ci, ri, postVars,
                   engine, caseSensitive, langVars>>
    /\ UNCHANGED <<fileVars, dirVars, temp_wav, results>>

\* format_results_to_markdown, with its call of postprocess_text, whose
\* exception leaves process_file by the except clause.
FormatResults ==
    /\ pc = "format"
    /\ IF results = <<>>
       THEN markdown' = NotRecognised /\ pc' = "write" /\ UNCHANGED ret
       ELSE LET r == PostprocessText(term_replacements, JoinTexts(results)) IN
            IF r.status = "raised"
            THEN pc' = "finally" /\ ret' = Return(FALSE, "format") /\ UNCHANGED markdown
            ELSE markdown' = r.text /\ pc' = "write" /\ UNCHANGED ret
    /\ UNCHANGED <<constructed, fileVars, dirVars, temp_wav, results>>

\* (a wrong version of WriteTranscript: the .md file is named by the whole
\* name of the input, extension included)
WriteTranscriptByName ==
    /\ pc = "write"
    /\ \/ /\ transcripts' =
               {t \in transcripts : ~SamePath(t.stem, AudioFile)}
               \cup {[stem |-> AudioFile, from |-> AudioFile, text |-> markdown]}
          /\ pc' = "move"
          /\ UNCHANGED ret
       \/ /\ pc' = "finally" /\ ret' = Return(FALSE, "write")
          /\ UNCHANGED transcripts
    /\ UNCHANGED <<constructed, inputDir, processed, tempFiles, dirVars,
                   temp_wav, results, markdown>>

\* The .md file named by the stem of the input is written, over the one
\* that was there; or open/write raises.
WriteTranscript ==
    /\ pc = "write"
    /\ \/ /\ transcripts' =
               {t \in transcripts : ~SamePath(t.stem, Stem(AudioFile))}
               \cup {[stem |-> Stem(AudioFile), from |-> AudioFile, text |-> markdown]}
          /\ pc' = "move"
          /\ UNCHANGED ret
       \/ /\ pc' = "finally" /\ ret' = Return(FALSE, "write")
          /\ UNCHANGED transcripts
    /\ UNCHANGED <<constructed, inputDir, processed, tempFiles, dirVars,
                   temp_wav, results, markdown>>

\* (a wrong version of MoveInput: True is returned though the move failed)
MoveInputAlwaysTrue ==
    /\ pc = "move"
    /\ \/ /\ inputDir' = inputDir \ {AudioFile}
          /\ processed' = processed \cup {AudioFile}
       \/ UNCHANGED <<inputDir, processed>>
    /\ ret' = Return(TRUE, "end")
    /\ pc' = "finally"
    /\ UNCHANGED <<constructed, transcripts, tempFiles, dirVars,
                   temp_wav, results, markdown>>

\* shutil.move to the processed directory and return True; or the move (or
\* the mkdir before it) raises.
MoveInput ==
    /\ pc = "move"
    /\ \/ /\ inputDir' = inputDir \ {AudioFile}
          /\ processed' = processed \cup {AudioFile}
          /\ ret' = Return(TRUE, "end")
       \/ /\ ret' = Return(FALSE, "move")
          /\ UNCHANGED <<inputDir, processed>>
    /\ pc' = "finally"
    /\ UNCHANGED <<constructed, transcripts, tempFiles, dirVars,
                   temp_wav, results, markdown>>

\* (a wrong version of Finally: the temp file is removed after a success
\* only)
FinallyAfterSuccessOnly ==
    /\ pc = "finally"
    /\ tempFiles' = IF engine = "vosk" /\ temp_wav # None /\ temp_wav \in tempFiles
                       /\ ret.value
                    THEN tempFiles \ {temp_wav} ELSE tempFiles
    /\ pc' = "fileReturned"
    /\ UNCHANGED <<constructed, inputDir, transcripts, processed, dirVars, callVars>>

\* The finally clause, on the way out of the try block.
Finally ==
    /\ pc = "finally"
    /\ tempFiles' = IF engine = "vosk" /\ temp_wav # None /\ temp_wav \in tempFiles
                    THEN tempFiles \ {temp_wav} ELSE tempFiles
    /\ pc' = "fileReturned"
    /\ UNCHANGED <<constructed, inputDir, transcripts, processed, dirVars, callVars>>

\* process_file has returned: the loop of process_directory counts a True
\* and takes the next file; the locals of the call are gone.
NextAudioFile ==
    /\ pc = "fileReturned"
    /\ success_count' = IF ret.value THEN success_count + 1 ELSE success_count
    /\ calls' = Append(calls, [file |-> AudioFile, value |-> ret.value])
    /\ idx' = idx + 1
    /\ pc' = "loop"
    /\ temp_wav' = None /\ results' = <<>> /\ markdown' = <<>> /\ ret' = NoReturn
    /\ UNCHANGED <<constructed, fileVars, audio_files, reported>>

\* The loop is over: the summary is printed.
PrintSummary ==
    /\ pc = "loop"
    /\ idx > Len(audio_files)
    /\ reported' = success_count
    /\ pc' = "done"
    /\ UNCHANGED <<constructed, fileVars, audio_files, idx, success_count, calls, callVars>>

NextProc ==
    \/ FindAudioFiles
    \/ ProcessFileCall
    \/ ConvertToWav
    \/ TranscribeAudio
    \/ FormatResults
    \/ WriteTranscript
    \/ MoveInput
    \/ Finally
    \/ NextAudioFile
    \/ PrintSummary

SpecProc == InitProc /\ [][NextProc]_vars

(***************************************************************************)
(* extract_language_from_model_path and validate_language_config (Vosk).   *)
(***************************************************************************)
\* The head of the names of the Vosk models, and the size word of some.
VoskModel == <<"v", "o", "s", "k", "-", "m", "o", "d", "e", "l", "-">>
Small == <<"s", "m", "a", "l", "l", "-">>

\* Language codes and version numbers.
ru == <<"r", "u">>
en == <<"e", "n">>
de == <<"d", "e">>
enUs == <<"e", "n", "-", "u", "s">>
v022 == <<"-", "0", ".", "2", "2">>
v042 == <<"-", "0", ".", "4", "2">>

\* Path(model_path).name of the configurations of the model.
ModelNames ==
    { VoskModel \o Small \o ru \o v022,
      VoskModel \o ru \o v042,
      VoskModel \o <<"R", "U">> \o v042,
      VoskModel \o enUs \o v022,
      VoskModel \o Small \o enUs \o v022,
      VoskModel \o Small \o en,
      VoskModel \o <<"s", "m", "a", "l", "l">>,
      <<"m", "o", "d", "e", "l">>,
      <<"m", "y", "-">> \o VoskModel \o de \o <<"-", "n", "e", "w">> }

\* config.get('language'): no such key, or a str as it is written.
ConfiguredLanguages ==
    { Missing, <<>>, <<" ">>, ru, <<"R", "U">>, <<" ">> \o ru, en, enUs,
      <<"E", "N">>, de, <<"e">> }

Unknown == <<"unknown">>

\* [a-z] under re.IGNORECASE, and [\d.]
IsLetter(c) ==
    LowerChar(c) \in {"a", "b", "c", "d", "e", "k", "l", "m", "n", "o", "r", "s",
                      "t", "u", "v", "w", "y"}
IsVersionChar(c) == c \in {"0", "1", "2", "4", "5", "."}

\* lit stands in name at s, whatever the case.
LitAt(name, s, lit) ==
    /\ s + Len(lit) - 1 <= Len(name)
    /\ \A i \in 1..Len(lit) : LowerChar(name[s + i - 1]) = LowerChar(lit[i])

LetterAt(name, p) == p <= Len(name) /\ IsLetter(name[p])

\* -[\d.]+ can begin at q.
VersionAt(name, q) ==
    q + 1 <= Len(name) /\ name[q] = "-" /\ IsVersionChar(name[q + 1])

\* The group ([a-z]{2}(?:-[a-z]{2})?) at p, with -[\d.]+ after it when the
\* pattern has it: the place of the last character of the group, the
\* longer reading first; 0 if the group does not match at p.
GroupEnd(name, p, versioned) ==
    IF ~(LetterAt(name, p) /\ LetterAt(name, p + 1)) THEN 0
    ELSE IF ~versioned THEN p + 1
    ELSE IF /\ p + 2 <= Len(name) /\ name[p + 2] = "-"
            /\ LetterAt(name, p + 3) /\ LetterAt(name, p + 4)
            /\ VersionAt(name, p + 5)
    THEN p + 4
    ELSE IF VersionAt(name, p + 2) THEN p + 1
    ELSE 0

\* The four patterns, in the order they are tried.
LanguagePatterns ==
    << [prefix |-> VoskModel \o Small, versioned |-> TRUE],
       [prefix |-> VoskModel, versioned |-> TRUE],
       [prefix |-> VoskModel \o Small, versioned |-> FALSE],
       [prefix |-> VoskModel, versioned |-> FALSE] >>

\* re.search(pattern, model_name, re.IGNORECASE): group(1) of the leftmost
\* match, or None.
SearchLanguage(name, pattern) ==
    LET starts == {s \in 1..Len(name) :
                     /\ LitAt(name, s, pattern.prefix)
                     /\ GroupEnd(name, s + Len(pattern.prefix), pattern.versioned) # 0}
    IN IF starts = {} THEN None
       ELSE LET s == CHOOSE s \in starts : \A r \in starts : s <= r
                p == s + Len(pattern.prefix)
            IN SubSeq(name, p, GroupEnd(name, p, pattern.versioned))

\* The loop over the patterns from the k-th on: the first match, in lower
\* case.
RECURSIVE ExtractFrom(_, _)
ExtractFrom(name, k) ==
    IF k > Len(LanguagePatterns) THEN None
    ELSE LET m == SearchLanguage(name, LanguagePatterns[k]) IN
         IF m # None THEN LowerStr(m) ELSE ExtractFrom(name, k + 1)

ExtractLanguage(name) == ExtractFrom(name, 1)

\* str.strip, on the whitespace of the model (the space).
RECURSIVE StripLeft(_)
StripLeft(s) == IF s # <<>> /\ Head(s) = " " THEN StripLeft(Tail(s)) ELSE s
RECURSIVE StripRight(_)
StripRight(s) ==
    IF s # <<>> /\ s[Len(s)] = " " THEN StripRight(SubSeq(s, 1, Len(s) - 1)) ELSE s
Strip(s) == StripRight(StripLeft(s))

\* s.startswith(t)
StartsWith(s, t) == Len(t) <= Len(s) /\ SubSeq(s, 1, Len(t)) = t

InitLang ==
    /\ pc = "validate"
    /\ dictsExists \in BOOLEAN
    /\ json_files = <<>> /\ replacements = <<>>
    /\ fi = 0 /\ ci = 0 /\ ri = 0
    /\ term_replacements = <<>>
    /\ arg = <<>> /\ text = <<>> /\ pi = 0
    /\ result = NoResult
    /\ engine = "vosk"
    /\ caseSensitive = TRUE
    /\ inputDir = {} /\ transcripts = {} /\ processed = {} /\ tempFiles = {}
    /\ DirIdle /\ CallIdle
    /\ model_name \in ModelNames
    /\ language \in ConfiguredLanguages
    /\ detected_lang = None /\ config_lang = <<>>

\* detected_lang = self.extract_language_from_model_path()
\* config_lang = self.config.get('language', '').strip().lower()
ReadLanguages ==
    /\ pc = "validate"
    /\ detected_lang' = ExtractLanguage(model_name)
    /\ config_lang' = LowerStr(Strip(IF language = Missing THEN <<>> ELSE language))
    /\ pc' = "reconcile"
    /\ UNCHANGED <<loaderVars, term_replacements, postVars, procVars, model_name, language>>

\* (a wrong version of ReconcileLanguage: a configured language that is not
\* the detected one is replaced, prefix or not)
ReconcileExactOnly ==
    /\ pc = "reconcile"
    /\ IF detected_lang # None
       THEN language' = IF config_lang = detected_lang THEN language ELSE detected_lang
       ELSE language' = IF config_lang # <<>> THEN language ELSE Unknown
    /\ config_lang' = IF detected_lang # None /\ config_lang = <<>>
                      THEN detected_lang ELSE config_lang
    /\ pc' = "validated"
    /\ UNCHANGED <<loaderVars, term_replacements, postVars, procVars,
                   model_name, detected_lang>>

\* The if/else on detected_lang.
ReconcileLanguage ==
    /\ pc = "reconcile"
    /\ IF detected_lang # None
       THEN LET set == IF config_lang = <<>> THEN detected_lang ELSE language
                lang == IF config_lang = <<>> THEN detected_lang ELSE config_lang
            IN IF /\ lang # <<>> /\ lang # detected_lang
                  /\ ~(StartsWith(lang, detected_lang) \/ StartsWith(detected_lang, lang))
               THEN language' = detected_lang
               ELSE language' = set
       ELSE language' = IF config_lang # <<>> THEN language ELSE Unknown
    /\ config_lang' = IF detected_lang # None /\ config_lang = <<>>
                      THEN detected_lang ELSE config_lang
    /\ pc' = "validated"
    /\ UNCHANGED <<loaderVars, term_replacements, postVars, procVars,
                   model_name, detected_lang>>

NextLang ==
    \/ ReadLanguages
    \/ ReconcileLanguage

SpecLang == InitLang /\ [][NextLang]_vars

(***************************************************************************)
(* What a dictionary file says, read off the file (not off the loader).    *)
(***************************************************************************)
IsFlat(f) == f.readable /\ f.hasReplacements
IsNested(f) == f.readable /\ ~f.hasReplacements /\ f.hasContexts

\* The rule entries of a nested file, context after context.
RECURSIVE AllEntries(_)
AllEntries(contexts) ==
    IF contexts = <<>> THEN <<>>
    ELSE (IF Head(contexts).hasReplacements THEN Head(contexts).replacements ELSE <<>>)
         \o AllEntries(Tail(contexts))

EntriesOf(f) == IF IsNested(f) THEN AllEntries(f.contexts) ELSE <<>>

IsPatternsRule(e) == e.type = "dict" /\ e.hasPatterns /\ e.patterns # <<>> /\ e.hasCorrect
IsLegacyRule(e) == e.type = "dict" /\ ~e.hasPatterns /\ e.hasWrong /\ e.hasCorrect
IsWellFormedRule(e) == IsPatternsRule(e) \/ IsLegacyRule(e)

\* An entry that asks for a "correct" it does not have.
LacksCorrect(e) ==
    /\ e.type = "dict"
    /\ ~e.hasCorrect
    /\ (e.hasPatterns /\ e.patterns # <<>>) \/ (~e.hasPatterns /\ e.hasWrong)

\* The patterns a well-formed rule maps to its correction.
Defines(e) ==
    IF IsPatternsRule(e) THEN Range(e.patterns)
    ELSE IF IsLegacyRule(e) THEN {e.wrong}
    ELSE {}

\* Every pattern an entry names at all.
Mentions(e) == Range(e.patterns) \cup (IF e.hasWrong THEN {e.wrong} ELSE {})

\* The file is read, parsed and walked to its end without an exception.
LoadsCleanly(f) ==
    /\ f.readable
    /\ \A i \in 1..Len(EntriesOf(f)) : ~LacksCorrect(EntriesOf(f)[i])

FileDefines(f) ==
    IF IsFlat(f) THEN Keys(f.replacements)
    ELSE UNION {Defines(EntriesOf(f)[i]) : i \in 1..Len(EntriesOf(f))}

FileMentions(f) ==
    IF IsFlat(f) THEN Keys(f.replacements)
    ELSE UNION {Mentions(EntriesOf(f)[i]) : i \in 1..Len(EntriesOf(f))}

\* The correction the file gives p: that of the last rule defining p.
FileValue(f, p) ==
    IF IsFlat(f) THEN DictGet(f.replacements, p)
    ELSE LET es == EntriesOf(f)
             last == CHOOSE i \in 1..Len(es) :
                        /\ p \in Defines(es[i])
                        /\ \A j \in (i + 1)..Len(es) : p \notin Defines(es[j])
         IN es[last].correct

\* The for loop over json_files has ended; replacements is what is returned.
LoopDone == pc = "file" /\ fi > Len(json_files)

\* No file after the k-th names p.
NotNamedAfter(k, p) ==
    \A j \in (k + 1)..Len(json_files) : p \notin FileMentions(json_files[j])

(***************************************************************************)
(* C1: when a dictionary file fails, the scan goes on, and every pattern   *)
(* of every file that loads cleanly is in the returned table, with the     *)
(* file's correction unless a later file names the pattern too; wherever   *)
(* the failing file stands in the enumeration.                             *)
(***************************************************************************)
C1_FailureIsolated ==
    (LoopDone /\ \E j \in 1..Len(json_files) : ~LoadsCleanly(json_files[j]))
    => \A k \in 1..Len(json_files) :
         LoadsCleanly(json_files[k]) =>
           \A p \in FileDefines(json_files[k]) :
              /\ DictHas(replacements, p)
              /\ NotNamedAfter(k, p) =>
                   DictGet(replacements, p) = FileValue(json_files[k], p)

\* An unreadable file came first, and the file after it is in the table.
C1_Witness ==
    /\ LoopDone
    /\ Len(json_files) >= 2
    /\ ~json_files[1].readable
    /\ LoadsCleanly(json_files[2])
    /\ FileDefines(json_files[2]) # {}
    /\ FileDefines(json_files[2]) \subseteq Keys(replacements)

(***************************************************************************)
(* C2: when two files that load cleanly give the same pattern different    *)
(* corrections, the returned table maps the pattern to the correction of   *)
(* the file processed later, and holds one entry for the pattern.          *)
(***************************************************************************)
EntriesFor(d, k) == {i \in 1..Len(d) : d[i][1] = k}

C2_LastWriterWins ==
    LoopDone =>
      \A i, j \in 1..Len(json_files) :
        (i < j /\ LoadsCleanly(json_files[i]) /\ LoadsCleanly(json_files[j])) =>
          \A p \in FileDefines(json_files[i]) \cap FileDefines(json_files[j]) :
            (FileValue(json_files[i], p) # FileValue(json_files[j], p) /\ NotNamedAfter(j, p))
            => /\ Cardinality(EntriesFor(replacements, p)) = 1
               /\ DictGet(replacements, p) = FileValue(json_files[j], p)

C2_Witness ==
    /\ LoopDone
    /\ Len(json_files) = 2
    /\ LoadsCleanly(json_files[1]) /\ LoadsCleanly(json_files[2])
    /\ \E p \in FileDefines(json_files[1]) \cap FileDefines(json_files[2]) :
         /\ FileValue(json_files[1], p) # FileValue(json_files[2], p)
         /\ DictGet(replacements, p) = FileValue(json_files[2], p)

(***************************************************************************)
(* C5: in a nested file, each rule with a non-empty patterns list that the *)
(* loader gets to puts one entry per listed pattern in the table, all with *)
(* the rule's correction, and each legacy wrong/correct rule one entry     *)
(* wrong -> correct, in every context; the correction is the rule's unless *)
(* a later entry of the file or a later file names the pattern too.        *)
(***************************************************************************)
\* No entry before the i-th stops the file.
Reached(es, i) == \A j \in 1..(i - 1) : ~LacksCorrect(es[j])

C5_NestedLoading ==
    LoopDone =>
      \A k \in 1..Len(json_files) :
        LET es == EntriesOf(json_files[k]) IN
        \A i \in 1..Len(es) :
          (Reached(es, i) /\ IsWellFormedRule(es[i])) =>
            \A p \in Defines(es[i]) :
              /\ Cardinality(EntriesFor(replacements, p)) = 1
              /\ (NotNamedAfter(k, p) /\ \A j \in (i + 1)..Len(es) : p \notin Mentions(es[j]))
                 => DictGet(replacements, p) = es[i].correct

\* A nested file with a rule of two patterns and a legacy rule has been
\* loaded, from two contexts.
C5_Witness ==
    /\ LoopDone
    /\ \E k \in 1..Len(json_files) :
         LET es == EntriesOf(json_files[k]) IN
         /\ IsNested(json_files[k])
         /\ Len(json_files[k].contexts) >= 2
         /\ \E i \in 1..Len(es) :
              /\ IsPatternsRule(es[i])
              /\ Cardinality(Range(es[i].patterns)) >= 2
              /\ \A p \in Range(es[i].patterns) :
                   DictHas(replacements, p) /\ DictGet(replacements, p) = es[i].correct
         /\ \E i \in 1..Len(es) :
              /\ IsLegacyRule(es[i])
              /\ DictHas(replacements, es[i].wrong)
              /\ DictGet(replacements, es[i].wrong) = es[i].correct

(***************************************************************************)
(* C6 as stated: every rule entry that is no well-formed patterns/correct  *)
(* or wrong/correct rule is skipped: the table is left as it is, nothing   *)
(* is raised, and the loader goes on with the next entry of the file.      *)
(***************************************************************************)
AtEntry == pc = "rule" /\ ri <= Len(json_files[fi].contexts[ci].replacements)
Entry == json_files[fi].contexts[ci].replacements[ri]
Skips ==
    /\ replacements' = replacements
    /\ pc' = "rule" /\ fi' = fi /\ ci' = ci /\ ri' = ri + 1

C6_AnyOtherShapeSkipped ==
    [][(AtEntry /\ ~IsWellFormedRule(Entry)) => Skips]_vars

(***************************************************************************)
(* C6, amended: an entry that is a string, a dict with neither "patterns"  *)
(* nor "wrong", or a dict with an empty "patterns" list is skipped (table  *)
(* unchanged, nothing raised, the next entry of the file is taken); a dict *)
(* with a non-empty "patterns" list, or with "wrong" and no "patterns",    *)
(* that has no "correct" raises: the table is unchanged, and the loader    *)
(* leaves the file for the next one.                                       *)
(***************************************************************************)
C6_SkippedOrFileLeft ==
    [][AtEntry =>
         /\ (~IsWellFormedRule(Entry) /\ ~LacksCorrect(Entry)) => Skips
         /\ LacksCorrect(Entry) =>
              /\ replacements' = replacements
              /\ pc' = "file" /\ fi' = fi + 1]_vars

\* An entry that is no rule has been passed with the table as it was, and
\* the loader is at the next entry of the same context.
C6_Witness ==
    /\ pc = "rule"
    /\ ri > 1
    /\ ri <= Len(json_files[fi].contexts[ci].replacements)
    /\ LET passed == json_files[fi].contexts[ci].replacements[ri - 1] IN
       ~IsWellFormedRule(passed) /\ ~LacksCorrect(passed)

(***************************************************************************)
(* C7: with a single flat file in the directory, the returned table is the *)
(* file's "replacements" object: same keys, same values, same order.       *)
(***************************************************************************)
C7_FlatLoading ==
    (LoopDone /\ Len(json_files) = 1 /\ IsFlat(json_files[1]))
    => replacements = json_files[1].replacements

C7_Witness ==
    /\ LoopDone
    /\ Len(json_files) = 1
    /\ IsFlat(json_files[1])
    /\ Len(replacements) >= 2
    /\ replacements = json_files[1].replacements

(***************************************************************************)
(* What postprocess_text is said to do, stated without the re module.      *)
(***************************************************************************)
\* pattern stands in t at pos, whatever the case, between word boundaries.
OccursAt(t, pos, pattern) ==
    /\ pos + Len(pattern) - 1 <= Len(t)
    /\ \A i \in 1..Len(pattern) : Lower(t[pos + i - 1]) = Lower(pattern[i])
    /\ IsBoundary(t, pos)
    /\ IsBoundary(t, pos + Len(pattern))

\* t from pos on, each such occurrence (left to right) replaced by correct
\* as it is written.
RECURSIVE ReplaceWords(_, _, _, _)
ReplaceWords(pattern, correct, t, pos) ==
    IF pos > Len(t) THEN <<>>
    ELSE IF OccursAt(t, pos, pattern)
    THEN correct \o ReplaceWords(pattern, correct, t, pos + Len(pattern))
    ELSE <<t[pos]>> \o ReplaceWords(pattern, correct, t, pos + 1)

AtItem == pc = "post" /\ pi <= Len(term_replacements)
Pattern == term_replacements[pi][1]
Correct == term_replacements[pi][2]
NextItem == pc' = "post" /\ pi' = pi + 1

(***************************************************************************)
(* C3 as stated: postprocess_text never leaves by an exception; with any   *)
(* table the loader returns and any text, it returns a string.             *)
(***************************************************************************)
C3_NeverRaises == pc = "returned" => result.status = "returned"

(***************************************************************************)
(* C4 as stated: for a regex-bearing pattern that does not compile, the    *)
(* rule is applied as the literal whole-word, case-insensitive replacement *)
(* of the pattern by the correction, nothing is raised, and the loop goes  *)
(* on with the next rule.                                                  *)
(***************************************************************************)
C4_InvalidRegexFallsBack ==
    [][(AtItem /\ HasRegexChars(Pattern) /\ ~Compile(Pattern).ok)
       => (NextItem /\ text' = ReplaceWords(Pattern, Correct, text, 1))]_vars

(***************************************************************************)
(* C8: the rules are applied one after another in the order of the table,  *)
(* each to the text the rule before it produced: the text so far is the    *)
(* left fold over the rules already passed, the outcome of the call is the *)
(* left fold over the whole table.                                         *)
(***************************************************************************)
C8_SequentialFold ==
    /\ pc = "post" =>
         FoldRules(SubSeq(term_replacements, 1, pi - 1), 1, arg) = Returned(text)
    /\ pc = "returned" => result = FoldRules(term_replacements, 1, arg)

\* A call has returned in which some rule found nothing in the text before
\* the rule ahead of it ran and rewrote what that rule put in.
C8_Witness ==
    /\ pc = "returned"
    /\ result.status = "returned"
    /\ \E i \in 1..(Len(term_replacements) - 1) :
         LET before == FoldRules(SubSeq(term_replacements, 1, i - 1), 1, arg).text
             mid == ApplyRule(term_replacements[i][1], term_replacements[i][2], before).text
             later == term_replacements[i + 1]
         IN /\ mid # before
            /\ ApplyRule(later[1], later[2], before).text = before
            /\ ApplyRule(later[1], later[2], mid).text # mid

(***************************************************************************)
(* C9 as stated: the order of the table does not matter; the same pairs in *)
(* another order (here: the reverse order) give the same outcome.          *)
(***************************************************************************)
Reverse(q) == [i \in 1..Len(q) |-> q[Len(q) + 1 - i]]

C9_OrderIrrelevant ==
    pc = "returned" => FoldRules(Reverse(term_replacements), 1, arg) = result

(***************************************************************************)
(* C9, amended: the order matters, since each rule works on the text the   *)
(* rules before it left.  The outcome is a function of the set of pairs    *)
(* alone when the rules do not interact on the text: at most one rule      *)
(* changes the text given, and no other rule changes what that rule makes  *)
(* of it.  (A rule whose substitution raises makes the call raise wherever *)
(* it stands in the table.)                                                *)
(***************************************************************************)
RuleRaises(r) == ApplyRule(r[1], r[2], <<>>).raised
Changing(rules, t) == {r \in rules : ApplyRule(r[1], r[2], t).text # t}
NonInteracting(rules, t) ==
    /\ Cardinality(Changing(rules, t)) <= 1
    /\ \A r \in Changing(rules, t) :
         LET made == ApplyRule(r[1], r[2], t).text IN
         \A q \in rules \ {r} : ApplyRule(q[1], q[2], made).text = made

\* The outcome, from the set of pairs.
OrderFree(rules, t) ==
    IF \E r \in rules : RuleRaises(r) THEN RaisedResult
    ELSE IF Changing(rules, t) = {} THEN Returned(t)
    ELSE LET r == CHOOSE r \in Changing(rules, t) : TRUE IN
         Returned(ApplyRule(r[1], r[2], t).text)

C9_OrderIrrelevantWithoutInteraction ==
    pc = "returned" =>
      LET rules == Range(term_replacements) IN
      ((\E r \in rules : RuleRaises(r)) \/ NonInteracting(rules, arg))
      => result = OrderFree(rules, arg)

\* Of several rules that do not interact, one that is not the first of the
\* table changed the text.
C9_Witness ==
    /\ pc = "returned"
    /\ result.status = "returned"
    /\ Len(term_replacements) >= 2
    /\ NonInteracting(Range(term_replacements), arg)
    /\ Changing(Range(term_replacements), arg) # {}
    /\ term_replacements[1] \notin Changing(Range(term_replacements), arg)
    /\ result.text # arg

(***************************************************************************)
(* C10 as stated: for a pattern that is not regex-bearing, every           *)
(* occurrence of the pattern between word boundaries, whatever its case,   *)
(* is replaced by the correction, and nothing else is changed.             *)
(***************************************************************************)
C10_LiteralWholeWord ==
    [][(AtItem /\ ~HasRegexChars(Pattern))
       => (NextItem /\ text' = ReplaceWords(Pattern, Correct, text, 1))]_vars

(***************************************************************************)
(* The two paths of the loop body of postprocess_text.                     *)
(***************************************************************************)
\* The try block and its except clause: the pattern as a regular expression,
\* and on re.error the escaped pattern between word boundaries.
RegexPath(pattern, correct, t) ==
    LET r == ReSub(pattern, correct, t) IN
    IF r.raised THEN ReSub(WholeWord(pattern), correct, t) ELSE r

\* The else block: the escaped pattern between word boundaries.
LiteralPath(pattern, correct, t) == ReSub(WholeWord(pattern), correct, t)

\* The step the loop makes with the outcome r of a path.
StepsWith(r) ==
    IF r.raised
    THEN pc' = "returned" /\ result' = RaisedResult
    ELSE NextItem /\ text' = r.text

\* The text is in pattern, as a run of characters.
Contains(pattern, marker) ==
    \E i \in 1..(Len(pattern) - Len(marker) + 1) :
        SubSeq(pattern, i, i + Len(marker) - 1) = marker

\* Regex-bearing, as the classification is worded: a word-boundary escape
\* marker (backslash b as two characters, or the one character '\b' of
\* Python, chr(8)), or one of [ ] ( ) + ? * ^ $.
RegexBearing(pattern) ==
    \/ Contains(pattern, <<BSL, "b">>)
    \/ Contains(pattern, <<BSP>>)
    \/ \E ch \in {"[", "]", "(", ")", "+", "?", "*", "^", "$"} : Contains(pattern, <<ch>>)

(***************************************************************************)
(* C11: a pattern takes the regular-expression path if and only if it      *)
(* contains a word-boundary escape marker or one of [ ] ( ) + ? * ^ $;     *)
(* every other pattern, one whose only regex syntax is "." included, takes *)
(* the literal whole-word path.                                            *)
(***************************************************************************)
C11_PatternClassification ==
    [][AtItem =>
         IF RegexBearing(Pattern)
         THEN StepsWith(RegexPath(Pattern, Correct, text))
         ELSE StepsWith(LiteralPath(Pattern, Correct, text))]_vars

\* The loop has passed a pattern with "." that is not regex-bearing, and a
\* regex-bearing pattern, each on a text where the two paths differ, and
\* each took its own path.
C11_Witness ==
    /\ pc = "post"
    /\ \E i, j \in 1..(pi - 1) :
         LET p == term_replacements[i][1]
             c == term_replacements[i][2]
             before == FoldRules(SubSeq(term_replacements, 1, i - 1), 1, arg).text
             q == term_replacements[j][1]
             d == term_replacements[j][2]
             ahead == FoldRules(SubSeq(term_replacements, 1, j - 1), 1, arg).text
         IN /\ ~RegexBearing(p) /\ Contains(p, <<".">>)
            /\ RegexPath(p, c, before) # LiteralPath(p, c, before)
            /\ FoldRules(SubSeq(term_replacements, 1, i), 1, arg)
                 = Returned(LiteralPath(p, c, before).text)
            /\ RegexBearing(q)
            /\ RegexPath(q, d, ahead) # LiteralPath(q, d, ahead)
            /\ FoldRules(SubSeq(term_replacements, 1, j), 1, arg)
                 = Returned(RegexPath(q, d, ahead).text)

(***************************************************************************)
(* C12: a dictionary directory that is missing, or holds no .json file, is *)
(* no error: load_term_replacements returns the empty table, nothing is    *)
(* raised, and the construction goes on to load the model.                 *)
(***************************************************************************)
C12_NoDictionariesIsNoError ==
    [][(pc = "start" /\ (~dictsExists \/ json_files = <<>>))
       => (pc' = "model" /\ term_replacements' = <<>>)]_vars

\* Without a dicts directory the transcriber is constructed, its model
\* loaded and its table empty.
C12_Witness ==
    /\ pc = "ready"
    /\ ~dictsExists
    /\ term_replacements = <<>>

(***************************************************************************)
(* C13: with an empty replacement table postprocess_text returns the text  *)
(* it was given, unchanged, whatever the text.                             *)
(***************************************************************************)
C13_IdentityOnEmptyTable ==
    (pc = "returned" /\ term_replacements = <<>>) => result = Returned(arg)

\* A call with a text of the greatest length, separators included, has
\* returned from a transcriber whose table is empty.
C13_Witness ==
    /\ pc = "returned"
    /\ term_replacements = <<>>
    /\ Len(arg) = MaxTextLen
    /\ \E i \in 1..Len(arg) : arg[i] = "("
    /\ result = Returned(arg)

(***************************************************************************)
(* C14: a rule of a nested file whose "patterns" list is empty adds        *)
(* nothing to the table, whatever other keys it has ("wrong" and "correct" *)
(* among them, or "wrong" without "correct"), and the loader goes on with  *)
(* the next rule.                                                          *)
(***************************************************************************)
HasEmptyPatterns(e) == e.type = "dict" /\ e.hasPatterns /\ e.patterns = <<>>

C14_EmptyPatternsAddNothing ==
    [][(AtEntry /\ HasEmptyPatterns(Entry)) => Skips]_vars

\* Two rules with an empty "patterns" list have been passed, one with
\* "wrong" and "correct", one with "wrong" alone; the "wrong" of the first
\* is not in the table, and the loader is at the rule after them.
C14_Witness ==
    /\ pc = "rule"
    /\ ri > 2
    /\ ri <= Len(json_files[fi].contexts[ci].replacements)
    /\ LET rules == json_files[fi].contexts[ci].replacements IN
       /\ HasEmptyPatterns(rules[ri - 2]) /\ HasEmptyPatterns(rules[ri - 1])
       /\ rules[ri - 2].hasWrong /\ rules[ri - 2].hasCorrect
       /\ rules[ri - 1].hasWrong /\ ~rules[ri - 1].hasCorrect
       /\ ~DictHas(replacements, rules[ri - 2].wrong)

(***************************************************************************)
(* What a file puts in the table when the KeyError of a rule ends it.      *)
(***************************************************************************)
\* The place, among the rule entries of f, of the first one that raises;
\* 0 if none does.
FirstFailing(f) ==
    LET es == EntriesOf(f)
        bad == {i \in 1..Len(es) : LacksCorrect(es[i])}
    IN IF bad = {} THEN 0 ELSE CHOOSE i \in bad : \A j \in bad : i <= j

FailsPartWay(f) == IsNested(f) /\ FirstFailing(f) > 0

\* The rule entries of f the loop gets through.
LoadedEntries(f) ==
    IF FirstFailing(f) = 0 THEN EntriesOf(f)
    ELSE SubSeq(EntriesOf(f), 1, FirstFailing(f) - 1)

\* The patterns f assigns, and the correction it leaves each with.
Assigns(f) ==
    IF IsFlat(f) THEN Keys(f.replacements)
    ELSE UNION {Defines(LoadedEntries(f)[i]) : i \in 1..Len(LoadedEntries(f))}

Assigned(f, p) ==
    IF IsFlat(f) THEN DictGet(f.replacements, p)
    ELSE LET es == LoadedEntries(f)
             last == CHOOSE i \in 1..Len(es) :
                        /\ p \in Defines(es[i])
                        /\ \A j \in (i + 1)..Len(es) : p \notin Defines(es[j])
         IN es[last].correct

(***************************************************************************)
(* C20: nothing is rolled back when a nested file raises part-way: the     *)
(* returned table holds what the rules before the failing one assigned,    *)
(* nothing of the rules after it, and for every pattern the correction of  *)
(* the last assignment that was carried out, in this file or another.      *)
(***************************************************************************)
C20_NoRollbackPerFile ==
    (LoopDone /\ \E k \in 1..Len(json_files) : FailsPartWay(json_files[k]))
    => \A p \in Keys(replacements)
                \cup UNION {FileMentions(json_files[k]) : k \in 1..Len(json_files)} :
         LET by == {k \in 1..Len(json_files) : p \in Assigns(json_files[k])} IN
         IF by = {} THEN ~DictHas(replacements, p)
         ELSE LET last == CHOOSE k \in by : \A j \in by : j <= k IN
              /\ DictHas(replacements, p)
              /\ DictGet(replacements, p) = Assigned(json_files[last], p)

\* The second of two files failed after its first rule and before its
\* last: the pattern of the first rule has that rule's correction, not the
\* one the file before gave it, and the pattern of the last rule is not in
\* the table.
C20_Witness ==
    /\ LoopDone
    /\ Len(json_files) = 2
    /\ LET f == json_files[2]
           es == EntriesOf(f)
       IN /\ FailsPartWay(f)
          /\ 1 < FirstFailing(f) /\ FirstFailing(f) < Len(es)
          /\ \E p \in Assigns(f) \cap Assigns(json_files[1]) :
               /\ Assigned(json_files[1], p) # Assigned(f, p)
               /\ DictGet(replacements, p) = Assigned(f, p)
          /\ \E q \in Defines(es[Len(es)]) : ~DictHas(replacements, q)

(***************************************************************************)
(* C15: the replacement table is built during the construction of the      *)
(* transcriber and never changed afterwards: no step of process_directory, *)
(* process_file, format_results_to_markdown or postprocess_text changes    *)
(* term_replacements.                                                      *)
(***************************************************************************)
C15_TableNeverMutated == [][term_replacements' = term_replacements]_vars

\* After a first process_file call, a second one has had its text
\* rewritten by the rules of the table.
C15_Witness ==
    /\ pc = "write"
    /\ calls # <<>>
    /\ term_replacements # <<>>
    /\ results # <<>>
    /\ markdown # JoinTexts(results)

(***************************************************************************)
(* What process_file has done for a file, read off the directories.        *)
(***************************************************************************)
\* A process_file call is under way, or has just returned to the loop.
InCall ==
    pc \in {"convert", "transcribe", "format", "write", "move", "finally", "fileReturned"}

\* A transcript written from the input file f is in the output directory.
WrittenFor(f) == \E t \in transcripts : t.from = f /\ t.stem = Stem(f)

MovedAway(f) == f \in processed /\ f \notin inputDir
StillThere(f) == f \in inputDir /\ f \notin processed

\* The returns of process_file that come before the transcript is written:
\* the extension, the conversion, the transcription, the formatting.
BeforeWriting == {"suffix", "convert", "transcribe", "format"}

(***************************************************************************)
(* C16: process_file moves the input to the processed directory only after *)
(* its transcript has been written; it returns True only when both have    *)
(* happened; when it returns False before the transcript is written, the   *)
(* input is still in the input directory and no transcript has been        *)
(* written from it.                                                        *)
(***************************************************************************)
C16_TranscriptBeforeArchive ==
    /\ InCall => (AudioFile \in processed => WrittenFor(AudioFile))
    /\ (pc = "fileReturned" /\ ret.value)
         => (WrittenFor(AudioFile) /\ MovedAway(AudioFile))
    /\ (pc = "fileReturned" /\ ~ret.value /\ ret.at \in BeforeWriting)
         => (StillThere(AudioFile) /\ ~WrittenFor(AudioFile))

\* After a call that returned True, the call for a file of the same stem
\* has returned False at the conversion: the file is where it was, and the
\* transcript of that name is the other file's.
C16_Witness ==
    /\ pc = "fileReturned"
    /\ ~ret.value /\ ret.at = "convert"
    /\ Len(calls) = 1 /\ calls[1].value
    /\ Stem(calls[1].file) = Stem(AudioFile)
    /\ WrittenFor(calls[1].file) /\ MovedAway(calls[1].file)
    /\ StillThere(AudioFile)

(***************************************************************************)
(* C17: with Vosk, when process_file has returned, on whatever path, the   *)
(* temp WAV of the call is not in the temp directory; with Whisper no temp *)
(* WAV is ever made.                                                       *)
(***************************************************************************)
C17_TempFileCleanup ==
    /\ pc = "fileReturned" => TempName(AudioFile) \notin tempFiles
    /\ pc \in {"loop", "done"}
         => \A i \in 1..Len(calls) : TempName(calls[i].file) \notin tempFiles
    /\ engine = "whisper" => (tempFiles = {} /\ temp_wav = None)

\* With Vosk, a call that made its temp WAV has returned False because the
\* transcription raised, after an earlier call of the run.
C17_Witness ==
    /\ engine = "vosk"
    /\ pc = "fileReturned"
    /\ ~ret.value /\ ret.at = "transcribe"
    /\ temp_wav = TempName(AudioFile)
    /\ calls # <<>>

(***************************************************************************)
(* C18: process_directory calls process_file once for every audio file it  *)
(* discovered, in the order of the names without regard to case, each file *)
(* once though two globs may find it; a call that fails does not stop the  *)
(* calls after it; the run ends; the count reported is the number of calls *)
(* that returned True.                                                     *)
(***************************************************************************)
\* The name ends with a supported extension, in lower or in upper case (in
\* any case where the file system does not tell them apart).
IsDiscovered(name) ==
    \E k \in 1..Len(SupportedFormats) :
       LET ext == SupportedFormats[k] IN
       /\ Len(name) >= Len(ext)
       /\ LET tail == SubSeq(name, Len(name) - Len(ext) + 1, Len(name)) IN
          \/ tail = ext
          \/ tail = UpperStr(ext)
          \/ ~caseSensitive /\ LowerStr(tail) = LowerStr(ext)

\* The files the input directory had when it was listed.
Listed == inputDir \cup processed

\* What is left to do: the files not yet processed, and the steps of the
\* call under way.
StepsLeft ==
    CASE pc = "ready" -> 10 * Cardinality(inputDir) + 20
      [] pc = "done" -> 0
      [] OTHER ->
           10 * (Len(audio_files) + 1 - idx)
           + (CASE pc = "loop" -> 9 [] pc = "convert" -> 8 [] pc = "transcribe" -> 7
                [] pc = "format" -> 6 [] pc = "write" -> 5 [] pc = "move" -> 4
                [] pc = "finally" -> 3 [] pc = "fileReturned" -> 2)

C18_Discovery ==
    pc # "ready" =>
      /\ Range(audio_files) = {f \in Listed : IsDiscovered(f)}
      /\ \A i, j \in 1..Len(audio_files) :
           i < j => /\ audio_files[i] # audio_files[j]
                    /\ ~StrLess(LowerStr(audio_files[j]), LowerStr(audio_files[i]))

C18_Calls ==
    /\ \A i \in 1..Len(calls) : calls[i].file = audio_files[i]
    /\ pc = "loop" => Len(calls) = idx - 1
    /\ (pc = "done" /\ audio_files # <<>>)
         => /\ Len(calls) = Len(audio_files)
            /\ reported = Cardinality({i \in 1..Len(calls) : calls[i].value})

C18_EveryFileOnceInOrder ==
    /\ [](C18_Discovery /\ C18_Calls)
    /\ [](pc # "done" => ENABLED NextProc)
    /\ [][StepsLeft' < StepsLeft]_vars

\* On a file system that does not tell the cases apart, where both globs
\* of a format find each file, the run is over: the first file failed, the
\* second, whose name is in upper case, was processed, and one success
\* was reported.
C18_Witness ==
    /\ pc = "done"
    /\ ~caseSensitive
    /\ Len(Extended(Listed, SupportedFormats)) > Len(audio_files)
    /\ Len(calls) = 2
    /\ ~calls[1].value /\ calls[2].value
    /\ calls[2].file # LowerStr(calls[2].file)
    /\ reported = 1

(***************************************************************************)
(* What validate_language_config is said to do with config['language'].    *)
(***************************************************************************)
\* One of the two is a prefix of the other (equal included).
PrefixCompatible(a, b) == StartsWith(a, b) \/ StartsWith(b, a)

\* The configured language as the comparison takes it: without the
\* whitespace around it, in lower case; empty when there is no such key.
Normalised(lang) == LowerStr(Strip(IF lang = Missing THEN <<>> ELSE lang))

AtReconcile == pc = "reconcile"
Detected == ExtractLanguage(model_name)

(***************************************************************************)
(* C19 as stated, on the configured language as it is written: with a      *)
(* detected language, config['language'] ends as the detected one if the   *)
(* configured one is empty or not prefix-compatible with it, and is left   *)
(* as it is otherwise; with none detected, a configured language is kept   *)
(* and a missing one becomes 'unknown'.                                    *)
(***************************************************************************)
C19_LanguageReconciled ==
    [][AtReconcile =>
         IF Detected # None
         THEN IF language \in {Missing, <<>>} \/ ~PrefixCompatible(language, Detected)
              THEN language' = Detected
              ELSE language' = language
         ELSE IF language \in {Missing, <<>>}
              THEN language' = Unknown
              ELSE language' = language]_vars

(***************************************************************************)
(* C19, amended: the comparison is made on the configured language with    *)
(* the whitespace around it stripped and in lower case.  With a detected   *)
(* language, config['language'] ends as the detected one if that is empty  *)
(* or not prefix-compatible with the detected one, and is left as it is    *)
(* written otherwise; with none detected, a configured language that is    *)
(* not empty after stripping is kept as written, and a missing, empty or   *)
(* blank one becomes 'unknown'.                                            *)
(***************************************************************************)
C19_NormalisedLanguageReconciled ==
    [][AtReconcile =>
         IF Detected # None
         THEN IF Normalised(language) = <<>>
                 \/ ~PrefixCompatible(Normalised(language), Detected)
              THEN language' = Detected
              ELSE language' = language
         ELSE IF Normalised(language) = <<>>
              THEN language' = Unknown
              ELSE language' = language]_vars

\* A language of two parts was detected, and the configured language, a
\* prefix of it written in upper case, is left as it was written.
C19_Witness ==
    /\ pc = "validated"
    /\ detected_lang = enUs
    /\ language # LowerStr(language)
    /\ language # detected_lang
    /\ StartsWith(detected_lang, LowerStr(language))

(***************************************************************************)
(* What process_file and process_directory are said to do with two inputs  *)
(* of one stem.                                                            *)
(***************************************************************************)
\* The transcripts written at <stem>.md.
TranscriptsAt(ts, stem) == {t \in ts : t.stem = stem}

\* Calls i and j, j the later, were made for two files of one stem.
SameStemPair(i, j) ==
    /\ i < j
    /\ calls[i].file # calls[j].file
    /\ Stem(calls[i].file) = Stem(calls[j].file)

(***************************************************************************)
(* C21: the transcript path depends on the stem of the input alone.  A     *)
(* step that writes a transcript leaves at <stem>.md the one transcript of *)
(* the file being processed, whatever was there, and no other transcript   *)
(* changes; when process_directory is over and the calls for two files of  *)
(* one stem both returned True, <stem>.md is one file, it holds the        *)
(* transcript of the file processed later, and both calls are counted.     *)
(***************************************************************************)
C21_SameStemOverwrites ==
    /\ [][(pc = "write" /\ pc' = "move") =>
            /\ TranscriptsAt(transcripts', Stem(AudioFile))
                 = {[stem |-> Stem(AudioFile), from |-> AudioFile, text |-> markdown]}
            /\ {t \in transcripts' : ~SamePath(t.stem, Stem(AudioFile))}
                 = {t \in transcripts : ~SamePath(t.stem, Stem(AudioFile))}]_vars
    /\ [](pc = "done" =>
            \A i, j \in 1..Len(calls) :
               (SameStemPair(i, j) /\ calls[i].value /\ calls[j].value) =>
                 /\ Cardinality(TranscriptsAt(transcripts, Stem(calls[j].file))) = 1
                 /\ \A t \in TranscriptsAt(transcripts, Stem(calls[j].file)) :
                       t.from = calls[j].file
                 /\ reported = Cardinality({k \in 1..Len(calls) : calls[k].value})
                 /\ reported >= 2)

\* The run is over: two files of one stem and two extensions were both
\* processed and moved, two successes were reported, and the one
\* transcript there is names the second file as its source.
C21_Witness ==
    /\ pc = "done"
    /\ Len(calls) = 2
    /\ SameStemPair(1, 2)
    /\ Suffix(calls[1].file) # Suffix(calls[2].file)
    /\ calls[1].value /\ calls[2].value
    /\ reported = 2
    /\ processed = {calls[1].file, calls[2].file}
    /\ \E t \in transcripts : transcripts = {t} /\ t.from = calls[2].file

(***************************************************************************)
(* What load_term_replacements is said to do with a file of both shapes.   *)
(***************************************************************************)
\* The file was read, and has the key "replacements" and the key "contexts".
HasBothKeys(f) == f.readable /\ f.hasReplacements /\ f.hasContexts

\* The patterns the rule entries under "contexts" name.
ContextPatterns(f) ==
    LET es == AllEntries(f.contexts) IN UNION {Mentions(es[i]) : i \in 1..Len(es)}

(***************************************************************************)
(* C22: the flat shape takes precedence.  The step that reads a file with  *)
(* both keys updates the table with the entries of "replacements", those   *)
(* and no other, and the loop takes the next file; the loops over contexts *)
(* and rules are never inside a file that has the key "replacements"; and  *)
(* when the scan is over, a pattern that only the contexts of such a file  *)
(* name is not in the table.                                               *)
(***************************************************************************)
C22_FlatShapeTakesPrecedence ==
    /\ [][(pc = "file" /\ fi <= Len(json_files) /\ HasBothKeys(json_files[fi])) =>
            /\ replacements' = DictUpdate(replacements, json_files[fi].replacements)
            /\ pc' = "file" /\ fi' = fi + 1]_vars
    /\ [](pc \in {"context", "rule"} => ~json_files[fi].hasReplacements)
    /\ [](LoopDone =>
            \A k \in 1..Len(json_files) :
               HasBothKeys(json_files[k]) =>
                 \A p \in ContextPatterns(json_files[k]) :
                    (\A j \in 1..Len(json_files) : p \notin FileMentions(json_files[j]))
                      => ~DictHas(replacements, p))

\* The scan is over: a file with both keys was read, its flat entries are
\* in the table with their corrections, and a pattern of its contexts is
\* not.
C22_Witness ==
    /\ LoopDone
    /\ \E k \in 1..Len(json_files) :
         LET f == json_files[k] IN
         /\ HasBothKeys(f)
         /\ f.replacements # <<>>
         /\ \A i \in 1..Len(f.replacements) :
               /\ DictHas(replacements, f.replacements[i][1])
               /\ DictGet(replacements, f.replacements[i][1]) = f.replacements[i][2]
         /\ \E p \in ContextPatterns(f) : ~DictHas(replacements, p)

====
